---- MODULE Spec2Model ----
(***************************************************************************)
(* State coordination of the Rick and Morty character list: the reactive   *)
(* variables of config/apolloClient.ts, the AppProvider state of           *)
(* context/AppContext.tsx that mirrors them, and the pagination, search    *)
(* and favorite controls of components/CharacterList.tsx.                  *)
(*                                                                         *)
(* An optional value (number | null, T | undefined) is a set with at most  *)
(* one element: {} is null / undefined, {v} is the value v.                *)
(*                                                                         *)
(* A React event handler and the re-render that follows it are one step:   *)
(* React flushes the state updates of a discrete event before the next     *)
(* event is dispatched.  The handlers therefore read the committed state.  *)
(***************************************************************************)
EXTENDS Integers, Sequences, FiniteSets, TLC

\* ---------------------------------------------------------------- bounds
\* Largest page number the external source reports in info.next / info.prev.
MaxReported == 3
\* Largest number of pages a well-behaved source has for a search text.
MaxSourcePages == 3

\* ------------------------------------------------------ program constants
\* CharacterList.tsx:130  const maxPages = 2;
maxPages == 2

\* ------------------------------------------------------------ input sets
\* Character ids the source lists (CharacterList.tsx:45 "1", "2", "3" ...).
Ids == {"1", "2"}
\* Texts typed into the search box.
Filters == {"", "rick"}
\* info.next / info.prev : number | null  (CharacterList.tsx:57-58)
Null == {}
ReportedPages == {Null} \cup {{n} : n \in 0..MaxReported}
\* data?.characters?.info when it is defined
PageInfos == [next : ReportedPages, prev : ReportedPages]

VARIABLES
    favoriteCharactersVar,  \* apolloClient.ts:40   makeVar<string[]>([])
    searchFilterVar,        \* apolloClient.ts:44   makeVar<string>("")
    currentPageVar,         \* apolloClient.ts:48   makeVar<number>(1)
    favorites,              \* AppContext.tsx:80    useState(favoriteCharactersVar())
    searchFilter,           \* AppContext.tsx:84    useState(searchFilterVar())
    currentPage,            \* AppContext.tsx:88    useState(currentPageVar())
    queryVars,              \* CharacterList.tsx:107 variables of the query in force
    data,                   \* CharacterList.tsx:127 info of the result: {} or {info}
    status,                 \* CharacterList.tsx:103 state of the query in force
    everLoaded,             \* history: some result with data was received
    running,                \* an event handler is executing (run to completion)
    prog,                   \* the statements the running handler still has to execute
    pending,                \* React state updates queued by the running handler
    isDev,                  \* App.tsx:13  __DEV__
    otaPc,                  \* App.tsx:12-40 position of checkForUpdates
    otaCalls,               \* history: the Updates calls of this launch and their results
    otaUncaught,            \* a failure left checkForUpdates uncaught
    otaOutcome,             \* history: how the latest finished update check ended
    rendered,               \* {}: the screen shows the current state; {r}: it still shows render r
    currentPageVarB,        \* part_001:3  currentPageVar of the useReactiveVar variant
    hookResult,             \* AppContext.tsx:196 outcome of the latest useAppContext()
    inflight,               \* the variables of the requests sent and not yet answered
    dataFor,                \* history: the variables the result in force answers
    lastArrived,            \* history: the variables of the response that arrived last
    lastOp,                 \* history: the operation that produced this state
    lastPage,               \* history: the last writer of the page and its value
    lastFavOp               \* history: per id, the last add / remove call

vars == <<favoriteCharactersVar, searchFilterVar, currentPageVar,
          favorites, searchFilter, currentPage, queryVars, data,
          status, everLoaded, running, prog, pending,
          isDev, otaPc, otaCalls, otaUncaught, otaOutcome, hookResult,
          rendered, currentPageVarB,
          inflight, dataFor, lastArrived,
          lastOp, lastPage, lastFavOp>>

favVars == <<favoriteCharactersVar, favorites>>
searchVars == <<searchFilterVar, searchFilter>>
pageVars == <<currentPageVar, currentPage>>
stepVars == <<running, prog, pending>>

otaVars == <<isDev, otaPc, otaCalls, otaUncaught, otaOutcome>>
\* a render left behind by the state, and the store of the other provider variant
sideVars == <<rendered, currentPageVarB>>
raceVars == <<inflight, dataFor, lastArrived>>

\* no useAppContext() call is in progress
NoHookResult == [threw |-> FALSE, message |-> "", value |-> {}]

\* the update check and the context hook take no part in a handler
NoOtaActivity ==
    /\ UNCHANGED otaVars
    /\ hookResult' = NoHookResult
    /\ UNCHANGED raceVars
    /\ UNCHANGED sideVars

\* the parts of the application an action does not take part in
NoOtherActivity == UNCHANGED stepVars /\ NoOtaActivity

\* ------------------------------------------------------- array helpers
\* Array.prototype.includes
includes(arr, x) == \E i \in 1..Len(arr) : arr[i] = x

\* number of occurrences of x in arr
Count(arr, x) == Cardinality({i \in 1..Len(arr) : arr[i] = x})

\* Array.prototype.filter((i) => i !== id)
RECURSIVE filterOut(_, _)
filterOut(arr, id) ==
    IF arr = <<>> THEN <<>>
    ELSE IF Head(arr) # id
         THEN <<Head(arr)>> \o filterOut(Tail(arr), id)
         ELSE filterOut(Tail(arr), id)

\* the value of a non-null optional
Val(opt) == CHOOSE v \in opt : TRUE

\* JavaScript truthiness of a number | null: neither null nor 0
Truthy(opt) == opt # Null /\ opt # {0}

\* ----------------------------------------------- config/apolloClient.ts
\* addFavorite with the includes test dropped
addFavorite_NoCheck(id) ==
    favoriteCharactersVar' = Append(favoriteCharactersVar, id)

\* export const addFavorite = (id: string) => { ... }
addFavorite(id) ==
    favoriteCharactersVar' =
        IF ~includes(favoriteCharactersVar, id)
        THEN Append(favoriteCharactersVar, id)
        ELSE favoriteCharactersVar

\* removeFavorite written with splice(indexOf(id), 1): indexOf gives -1 for
\* an absent id and splice(-1, 1) drops the last element
removeFavorite_Splice(id) ==
    favoriteCharactersVar' =
        IF includes(favoriteCharactersVar, id)
        THEN filterOut(favoriteCharactersVar, id)
        ELSE IF favoriteCharactersVar = <<>> THEN <<>>
             ELSE SubSeq(favoriteCharactersVar, 1, Len(favoriteCharactersVar) - 1)

\* removeFavorite with the filter test turned round: (i) => i === id
removeFavorite_KeepOnly(id) ==
    favoriteCharactersVar' =
        IF includes(favoriteCharactersVar, id) THEN <<id>> ELSE <<>>

\* removeFavorite that never writes the filtered list back
removeFavorite_NoWrite(id) ==
    favoriteCharactersVar' = favoriteCharactersVar

\* export const removeFavorite = (id: string) => { ... }
removeFavorite(id) ==
    favoriteCharactersVar' = filterOut(favoriteCharactersVar, id)

\* ---------------------------------------------- context/AppContext.tsx
\* addToFavorites without setFavorites(favoriteCharactersVar())
addToFavorites_NoSync(id) ==
    /\ addFavorite(id)
    /\ favorites' = favorites

\* const addToFavorites = (id) => { addFavorite(id); setFavorites(favoriteCharactersVar()); }
addToFavorites(id) ==
    /\ addFavorite(id)
    /\ favorites' = favoriteCharactersVar'

\* const removeFromFavorites = (id) => { removeFavorite(id); setFavorites(favoriteCharactersVar()); }
removeFromFavorites(id) ==
    /\ removeFavorite(id)
    /\ favorites' = favoriteCharactersVar'

\* isFavorite that never finds the id
isFavorite_Never(id) == FALSE

\* const isFavorite = (id) => favorites.includes(id);
isFavorite(id) == includes(favorites, id)

\* setSearchFilter without the reset of the page
setSearchFilter_NoReset(filter) ==
    /\ searchFilterVar' = filter
    /\ searchFilter' = filter
    /\ UNCHANGED pageVars

\* const setSearchFilter = (filter) => { searchFilterVar(filter); setSearchFilterState(filter);
\*                                        currentPageVar(1); setCurrentPageState(1); }
setSearchFilter(filter) ==
    /\ searchFilterVar' = filter
    /\ searchFilter' = filter
    /\ currentPageVar' = 1
    /\ currentPage' = 1

\* setCurrentPage that forgets the React state copy
setCurrentPage_StoreOnly(page) ==
    /\ currentPageVar' = page
    /\ currentPage' = currentPage

\* const setCurrentPage = (page) => { currentPageVar(page); setCurrentPageState(page); }
setCurrentPage(page) ==
    /\ currentPageVar' = page
    /\ currentPage' = page

\* ------------------------------------------ components/CharacterList.tsx
\* variables that send the empty text as a filter too
variables_AlwaysFilter(page, filter) ==
    [page |-> page, filter |-> {filter}]

\* variables: { page: currentPage, filter: searchFilter || undefined }
variables(page, filter) ==
    [page |-> page, filter |-> IF filter = "" THEN {} ELSE {filter}]

\* useQuery at the render that follows a handler.  With unchanged variables
\* the result in force stays.  With new variables the result is undefined
\* while the request is in flight, or is served at once from the cache.
useQuery(page, filter) ==
    /\ queryVars' = variables(page, filter)
    /\ IF queryVars' = queryVars
       THEN data' = data /\ status' = status
       ELSE \E r \in {[d |-> {}, s |-> "loading"]}
                     \cup {[d |-> {i}, s |-> "ready"] : i \in PageInfos} :
                data' = r.d /\ status' = r.s
    /\ everLoaded' = (everLoaded \/ data' # {})

\* hasNext without the maxPages ceiling
hasNext_NoCeiling(info, page) ==
    (info = {} \/ Val(info).next # Null)

\* hasNext without the test of info.next
hasNext_IgnoreNext(info, page) == page < maxPages

\* const hasNext = info?.next !== null && currentPage < maxPages;
hasNext(info, page) ==
    (info = {} \/ Val(info).next # Null) /\ page < maxPages

\* hasPrev with the comparison turned round (info?.prev === null)
hasPrev_Inverted(info) == (info # {} /\ Val(info).prev = Null)

\* const hasPrev = info?.prev !== null;
hasPrev(info) == (info = {} \/ Val(info).prev # Null)

\* history record of one operation, taken in the state it starts from
Op(op, id, text, page, enabled) ==
    [op |-> op, id |-> id, text |-> text, page |-> page, enabled |-> enabled,
     fromPage |-> currentPage,
     had |-> includes(favoriteCharactersVar, id)]

\* ------------------------------------------------------------- initial state
Init ==
    /\ favoriteCharactersVar = <<>>
    /\ searchFilterVar = ""
    /\ currentPageVar = 1
    /\ favorites = favoriteCharactersVar
    /\ searchFilter = searchFilterVar
    /\ currentPage = currentPageVar
    /\ queryVars = variables(currentPage, searchFilter)
    /\ data = {}
    /\ status = "loading"
    /\ everLoaded = FALSE
    /\ running = FALSE
    /\ prog = <<>>
    /\ pending = [filter |-> {}, page |-> {}]
    /\ isDev \in BOOLEAN
    /\ otaPc = "launch"
    /\ otaCalls = <<>>
    /\ otaUncaught = FALSE
    /\ otaOutcome = "none"
    /\ rendered = {}
    /\ currentPageVarB = 1
    /\ hookResult = NoHookResult
    /\ inflight = {queryVars}
    /\ dataFor = queryVars
    /\ lastArrived = {}
    /\ lastOp = [op |-> "init", id |-> "", text |-> "", page |-> 0,
                 enabled |-> FALSE, fromPage |-> 1, had |-> FALSE]
    /\ lastPage = [by |-> "init", page |-> 1]
    /\ lastFavOp = [id \in Ids |-> "none"]

\* ------------------------------------- operations of the context (AppContextType)
\* addToFavorites(id) called by a consumer of the context
AddToFavorites(id) ==
    /\ addToFavorites(id)
    /\ UNCHANGED <<searchVars, pageVars, lastPage>>
    /\ useQuery(currentPage', searchFilter')
    /\ lastOp' = Op("addToFavorites", id, "", 0, TRUE)
    /\ NoOtherActivity
    /\ lastFavOp' = [lastFavOp EXCEPT ![id] = "add"]

\* removeFromFavorites(id) called by a consumer of the context
RemoveFromFavorites(id) ==
    /\ removeFromFavorites(id)
    /\ UNCHANGED <<searchVars, pageVars, lastPage>>
    /\ useQuery(currentPage', searchFilter')
    /\ lastOp' = Op("removeFromFavorites", id, "", 0, TRUE)
    /\ NoOtherActivity
    /\ lastFavOp' = [lastFavOp EXCEPT ![id] = "remove"]

\* setSearchFilter(filter) called by a consumer of the context
SetSearchFilter(filter) ==
    /\ setSearchFilter(filter)
    /\ UNCHANGED <<favVars, lastFavOp>>
    /\ useQuery(currentPage', searchFilter')
    /\ lastOp' = Op("setSearchFilter", "", filter, 0, TRUE)
    /\ NoOtherActivity
    /\ lastPage' = [by |-> "setSearchFilter", page |-> 1]

\* setCurrentPage(page) called by a consumer of the context with a page in range
SetCurrentPage(page) ==
    /\ setCurrentPage(page)
    /\ UNCHANGED <<favVars, searchVars, lastFavOp>>
    /\ useQuery(currentPage', searchFilter')
    /\ lastOp' = Op("setCurrentPage", "", "", page, TRUE)
    /\ NoOtherActivity
    /\ lastPage' = [by |-> "setCurrentPage", page |-> page]

\* ------------------------------------------ events of the CharacterList screen
\* <TextInput value={searchFilter} onChangeText={setSearchFilter} />
TextChange(text) ==
    /\ text # searchFilter
    /\ setSearchFilter(text)
    /\ UNCHANGED <<favVars, lastFavOp>>
    /\ useQuery(currentPage', searchFilter')
    /\ lastOp' = Op("onChangeText", "", text, 0, TRUE)
    /\ NoOtherActivity
    /\ lastPage' = [by |-> "setSearchFilter", page |-> 1]

\* the favorite button with a handler that also returns to the first page
FavoritePress_ResetsPage(id) ==
    /\ data # {}
    /\ IF isFavorite(id)
       THEN /\ removeFromFavorites(id)
            /\ lastFavOp' = [lastFavOp EXCEPT ![id] = "remove"]
       ELSE /\ addToFavorites(id)
            /\ lastFavOp' = [lastFavOp EXCEPT ![id] = "add"]
    /\ setCurrentPage(1)
    /\ lastPage' = [by |-> "setCurrentPage", page |-> 1]
    /\ UNCHANGED searchVars
    /\ useQuery(currentPage', searchFilter')
    /\ lastOp' = Op("favoritePress", id, "", 0, TRUE)
    /\ NoOtherActivity

\* the favorite button of a listed character:
\* if (isFavorite(item.id)) removeFromFavorites(item.id) else addToFavorites(item.id)
FavoritePress(id) ==
    /\ data # {}
    /\ IF isFavorite(id)
       THEN /\ removeFromFavorites(id)
            /\ lastFavOp' = [lastFavOp EXCEPT ![id] = "remove"]
       ELSE /\ addToFavorites(id)
            /\ lastFavOp' = [lastFavOp EXCEPT ![id] = "add"]
    /\ UNCHANGED <<searchVars, pageVars, lastPage>>
    /\ useQuery(currentPage', searchFilter')
    /\ lastOp' = Op("favoritePress", id, "", 0, TRUE)
    /\ NoOtherActivity

\* the Previous button, rendered only with info, disabled={!hasPrev}:
\* if (hasPrev && info.prev) setCurrentPage(info.prev)
PrevPress ==
    /\ data # {}
    /\ IF hasPrev(data) /\ (hasPrev(data) /\ Truthy(Val(data).prev))
       THEN /\ setCurrentPage(Val(Val(data).prev))
            /\ lastPage' = [by |-> "setCurrentPage", page |-> Val(Val(data).prev)]
       ELSE UNCHANGED <<pageVars, lastPage>>
    /\ UNCHANGED <<favVars, searchVars, lastFavOp>>
    /\ useQuery(currentPage', searchFilter')
    /\ lastOp' = Op("prevPress", "", "", 0, hasPrev(data))
    /\ NoOtherActivity

\* the Next button rendered whether or not info is there
NextPress_AlwaysRendered ==
    /\ IF hasNext(data, currentPage)
          /\ (hasNext(data, currentPage) /\ currentPage < maxPages)
       THEN /\ setCurrentPage(currentPage + 1)
            /\ lastPage' = [by |-> "setCurrentPage", page |-> currentPage + 1]
       ELSE UNCHANGED <<pageVars, lastPage>>
    /\ UNCHANGED <<favVars, searchVars, lastFavOp>>
    /\ useQuery(currentPage', searchFilter')
    /\ lastOp' = Op("nextPress", "", "", 0, hasNext(data, currentPage))
    /\ NoOtherActivity

\* the Next button, rendered only with info, disabled={!hasNext}:
\* if (hasNext && currentPage < maxPages) setCurrentPage(currentPage + 1)
NextPress ==
    /\ data # {}
    /\ IF hasNext(data, currentPage)
          /\ (hasNext(data, currentPage) /\ currentPage < maxPages)
       THEN /\ setCurrentPage(currentPage + 1)
            /\ lastPage' = [by |-> "setCurrentPage", page |-> currentPage + 1]
       ELSE UNCHANGED <<pageVars, lastPage>>
    /\ UNCHANGED <<favVars, searchVars, lastFavOp>>
    /\ useQuery(currentPage', searchFilter')
    /\ lastOp' = Op("nextPress", "", "", 0, hasNext(data, currentPage))
    /\ NoOtherActivity

\* the response to the query in force arrives with the info the source reports
DataArrives(info) ==
    /\ status = "loading"
    /\ data' = {info}
    /\ status' = "ready"
    /\ everLoaded' = TRUE
    /\ UNCHANGED <<favVars, searchVars, pageVars, queryVars, lastPage, lastFavOp>>
    /\ lastOp' = Op("dataArrives", "", "", 0, TRUE)
    /\ NoOtherActivity

\* the query in force fails.  useQuery does not throw: with errorPolicy "all"
\* the result carries the error and whatever data came with it, none after a
\* network error.
QueryFails(partial) ==
    /\ status = "loading"
    /\ data' = partial
    /\ status' = "error"
    /\ everLoaded' = (everLoaded \/ partial # {})
    /\ UNCHANGED <<favVars, searchVars, pageVars, queryVars, lastPage, lastFavOp>>
    /\ lastOp' = Op("queryFails", "", "", 0, TRUE)
    /\ NoOtherActivity

\* what the screen renders (CharacterList.tsx:148-244): the search box and the
\* list always, the pagination controls only with info
controls ==
    {"searchInput", "list"}
    \cup (IF data # {} THEN {"previous", "pageText", "next"} ELSE {})

\* const characters = data?.characters?.results || [];
\* results are on the screen exactly when the result in force has data
resultsShown == data # {}

\* ------------------------------------------------------------ specifications
\* the screen: what a user and the source can do
Next ==
    \/ \E text \in Filters : TextChange(text)
    \/ \E id \in Ids : FavoritePress(id)
    \/ PrevPress
    \/ NextPress
    \/ \E info \in PageInfos : DataArrives(info)
    \/ \E partial \in {{}} \cup {{i} : i \in PageInfos} : QueryFails(partial)

Spec == Init /\ [][Next]_vars

\* the context: its four operations called in any order with any argument
NextContext ==
    \/ \E id \in Ids : AddToFavorites(id)
    \/ \E id \in Ids : RemoveFromFavorites(id)
    \/ \E filter \in Filters : SetSearchFilter(filter)
    \/ \E page \in 1..maxPages : SetCurrentPage(page)

SpecContext == Init /\ [][NextContext]_vars

\* ------------------------------------------------------------------ claims
\* the predicates of section 4.3, stated on the info received and the page
canGoNext == data # {} /\ Val(data).next # Null /\ currentPage < maxPages
canGoPrev == data # {} /\ Val(data).prev # Null

\* C1: immediately after setSearchFilter(s), for every string s and every
\* prior page, the stored search filter is s and the current page is 1.
C1_SearchResetsPage ==
    lastOp.op \in {"setSearchFilter", "onChangeText"} =>
        /\ searchFilter = lastOp.text
        /\ searchFilterVar = lastOp.text
        /\ currentPage = 1
        /\ currentPageVar = 1

\* C1 witness: setSearchFilter was called while the page was not 1.
C1_Witness ==
    /\ lastOp.op = "setSearchFilter"
    /\ lastOp.fromPage = 2
    /\ currentPage = 1

\* C2: in every state reachable through Next and Previous presses, text
\* changes and PageInfo arrivals the page satisfies 1 <= current <= maxPages.
C2_PageInRange ==
    /\ 1 <= currentPage /\ currentPage <= maxPages
    /\ 1 <= currentPageVar /\ currentPageVar <= maxPages

\* C3: the current page read after a sequence of setCurrentPage(p) calls
\* with 1 <= p <= maxPages is the value of the most recent call, and 1 when
\* the page was never written.
C3_LastSetPageWins ==
    /\ lastPage.by = "setCurrentPage" =>
           currentPage = lastPage.page /\ currentPageVar = lastPage.page
    /\ lastPage.by = "init" => currentPage = 1 /\ currentPageVar = 1

\* C3 witness: a setCurrentPage call changed the page, and another operation
\* of the context followed it.
C3_Witness ==
    /\ lastPage.by = "setCurrentPage"
    /\ lastPage.page = 2
    /\ lastOp.op = "addToFavorites"

\* C4: after any add and remove calls no id occurs more than once in the
\* favorites list, and after add(id), repeated or not, id occurs exactly once.
C4_NoDuplicateFavorites ==
    /\ \A id \in Ids : Count(favoriteCharactersVar, id) <= 1
                       /\ Count(favorites, id) <= 1
    /\ lastOp.op = "addToFavorites" =>
           Count(favoriteCharactersVar, lastOp.id) = 1
           /\ Count(favorites, lastOp.id) = 1

\* C4 witness: add(id) was called for an id that was already a favorite.
C4_Witness ==
    /\ lastOp.op = "addToFavorites"
    /\ lastOp.had
    /\ Len(favoriteCharactersVar) = 2

\* C5: contains(id) is true exactly when the most recent add / remove call
\* on that id was an add; an id never added is not contained.
C5_ContainsIffLastAdd ==
    \A id \in Ids :
        /\ isFavorite(id) <=> lastFavOp[id] = "add"
        /\ includes(favoriteCharactersVar, id) <=> lastFavOp[id] = "add"

\* C5 witness: add(id) then remove(id), after which id is not contained.
C5_Witness ==
    /\ lastOp.op = "removeFromFavorites"
    /\ lastOp.had
    /\ ~isFavorite(lastOp.id)
    /\ favorites # <<>>

\* C6: remove(id) for an id that is not a favorite leaves the favorites
\* unchanged.
C6_RemoveAbsentIsNoOp ==
    [][(lastOp'.op = "removeFromFavorites"
        /\ ~includes(favoriteCharactersVar, lastOp'.id))
       => (favoriteCharactersVar' = favoriteCharactersVar
           /\ favorites' = favorites)]_vars

\* C6 witness: remove(id) was called for an absent id on a non-empty list.
C6_Witness ==
    /\ lastOp.op = "removeFromFavorites"
    /\ ~lastOp.had
    /\ favorites # <<>>

\* C7: with a PageInfo received, hasNext is true exactly when info.next is
\* not null and current < maxPages: true at page 1 with next = 2, false at
\* page 2 whatever next is.
C7_HasNext ==
    data # {} =>
        /\ hasNext(data, currentPage)
               <=> (Val(data).next # Null /\ currentPage < maxPages)
        /\ (currentPage = 1 /\ Val(data).next = {2})
               => hasNext(data, currentPage)
        /\ currentPage = 2 => ~hasNext(data, currentPage)

\* C7 witness: page 2 is shown and the source reports a next page.
C7_Witness ==
    /\ data # {}
    /\ currentPage = 2
    /\ Val(data).next = {3}

\* C8: with a PageInfo received, hasPrev is true exactly when info.prev is
\* not null; at page 1 with prev = null the Previous button is disabled and
\* a press leaves the page unchanged.
C8_HasPrev ==
    [][/\ data' # {} => (hasPrev(data') <=> Val(data').prev # Null)
       /\ (lastOp'.op = "prevPress" /\ currentPage = 1
           /\ Val(data).prev = Null)
          => (~lastOp'.enabled /\ pageVars' = pageVars)]_vars

\* C8 witness: Previous was pressed at page 1 while prev was null.
C8_Witness ==
    /\ lastOp.op = "prevPress"
    /\ ~lastOp.enabled
    /\ lastOp.fromPage = 1
    /\ currentPage = 1

\* C9: a Next press sets the page to current + 1 when canGoNext holds, and
\* changes neither page, filter nor favorites when it does not.
C9_NextPress ==
    [][lastOp'.op = "nextPress" =>
          IF canGoNext
          THEN currentPage' = currentPage + 1
               /\ currentPageVar' = currentPage + 1
          ELSE UNCHANGED <<pageVars, searchVars, favVars>>]_vars

\* C9 witness: a Next press advanced the page from 1 to 2.
C9_Witness ==
    /\ lastOp.op = "nextPress"
    /\ lastOp.enabled
    /\ lastOp.fromPage = 1
    /\ currentPage = 2

\* C10: whenever info.prev is not null, a Previous press sets the page to
\* the value of info.prev, for every non-null value.
C10_PrevPressTrustsSource ==
    [][(lastOp'.op = "prevPress" /\ canGoPrev) =>
          (currentPage' = Val(Val(data).prev)
           /\ currentPageVar' = Val(Val(data).prev))]_vars

\* C13: after every operation of the context, in any order and number, the
\* locally observed copies equal the process-wide reactive variables.
C13_CopiesEqualStore ==
    /\ favorites = favoriteCharactersVar
    /\ searchFilter = searchFilterVar
    /\ currentPage = currentPageVar

\* C13 witness: all three values were written and differ from their initial
\* values.
C13_Witness ==
    /\ lastOp.op = "addToFavorites"
    /\ ~lastOp.had
    /\ Len(favoriteCharactersVar) = 2
    /\ searchFilterVar = "rick"
    /\ currentPageVar = 2

\* C20: add(id) and remove(id) change the membership of id only; from
\* <<"1", "2">> remove("1") yields exactly <<"2">>.
C20_FavoritesFrame ==
    [][lastOp'.op \in {"addToFavorites", "removeFromFavorites"} =>
          /\ \A j \in Ids \ {lastOp'.id} :
                 /\ includes(favoriteCharactersVar', j)
                        <=> includes(favoriteCharactersVar, j)
                 /\ includes(favorites', j) <=> includes(favorites, j)
          /\ (lastOp'.op = "removeFromFavorites" /\ lastOp'.id = "1"
              /\ favoriteCharactersVar = <<"1", "2">>)
             => (favoriteCharactersVar' = <<"2">> /\ favorites' = <<"2">>)]_vars

\* C20 witness: add("1"), add("2"), remove("1") left exactly "2".
C20_Witness ==
    /\ lastOp.op = "removeFromFavorites"
    /\ lastOp.id = "1"
    /\ lastOp.had
    /\ favoriteCharactersVar = <<"2">>
    /\ lastFavOp["2"] = "add"

\* C18: when a query fails, the last-known results stay displayed if any
\* data has been loaded, and a retry action is presented if none has.
C18_FailureKeepsResultsOrOffersRetry ==
    status = "error" =>
        IF everLoaded THEN resultsShown ELSE "retry" \in controls

\* ------------------------------------------- the handlers statement by statement
\* A handler runs to completion: no other event, render or callback runs
\* between its statements.  A reactive variable is written at once; a state
\* setter only queues the update, and React applies the queued updates of the
\* handler together in the render that follows it.
Stmt(stmt, text, page) == [stmt |-> stmt, text |-> text, page |-> page]

\* setSearchFilter that leaves the page alone
setSearchFilterBody_NoReset(filter) ==
    << Stmt("searchFilterVar", filter, 0),
       Stmt("setSearchFilterState", filter, 0) >>

\* AppContext.tsx:136-144, the four statements of setSearchFilter
setSearchFilterBody(filter) ==
    << Stmt("searchFilterVar", filter, 0),
       Stmt("setSearchFilterState", filter, 0),
       Stmt("currentPageVar", "", 1),
       Stmt("setCurrentPageState", "", 1) >>

\* setCurrentPage that forgets setCurrentPageState(page)
setCurrentPageBody_StoreOnly(page) ==
    << Stmt("currentPageVar", "", page) >>

\* AppContext.tsx:151-156, the two statements of setCurrentPage
setCurrentPageBody(page) ==
    << Stmt("currentPageVar", "", page),
       Stmt("setCurrentPageState", "", page) >>

\* onChangeText={setSearchFilter}: the handler starts
BeginTextChange(text) ==
    /\ ~running
    /\ text # searchFilter
    /\ running' = TRUE
    /\ prog' = setSearchFilterBody(text)
    /\ lastOp' = Op("onChangeText", "", text, 0, TRUE)
    /\ UNCHANGED <<favVars, searchVars, pageVars, queryVars, data, status,
                   everLoaded, pending, lastPage, lastFavOp>>
    /\ NoOtaActivity

\* the Next button's onPress starts
BeginNextPress ==
    /\ ~running
    /\ data # {}
    /\ running' = TRUE
    /\ prog' = IF hasNext(data, currentPage)
                  /\ (hasNext(data, currentPage) /\ currentPage < maxPages)
               THEN setCurrentPageBody(currentPage + 1)
               ELSE <<>>
    /\ lastOp' = Op("nextPress", "", "", 0, hasNext(data, currentPage))
    /\ UNCHANGED <<favVars, searchVars, pageVars, queryVars, data, status,
                   everLoaded, pending, lastPage, lastFavOp>>
    /\ NoOtaActivity

\* the Previous button's onPress starts
BeginPrevPress ==
    /\ ~running
    /\ data # {}
    /\ running' = TRUE
    /\ prog' = IF hasPrev(data) /\ (hasPrev(data) /\ Truthy(Val(data).prev))
               THEN setCurrentPageBody(Val(Val(data).prev))
               ELSE <<>>
    /\ lastOp' = Op("prevPress", "", "", 0, hasPrev(data))
    /\ UNCHANGED <<favVars, searchVars, pageVars, queryVars, data, status,
                   everLoaded, pending, lastPage, lastFavOp>>
    /\ NoOtaActivity

\* the running handler executes its next statement
ExecStatement ==
    /\ running
    /\ prog # <<>>
    /\ LET st == Head(prog) IN
        /\ searchFilterVar' =
               IF st.stmt = "searchFilterVar" THEN st.text ELSE searchFilterVar
        /\ currentPageVar' =
               IF st.stmt = "currentPageVar" THEN st.page ELSE currentPageVar
        /\ pending' =
               IF st.stmt = "setSearchFilterState"
               THEN [pending EXCEPT !.filter = {st.text}]
               ELSE IF st.stmt = "setCurrentPageState"
                    THEN [pending EXCEPT !.page = {st.page}]
                    ELSE pending
    /\ prog' = Tail(prog)
    /\ UNCHANGED <<favVars, searchFilter, currentPage, queryVars, data, status,
                   everLoaded, running, lastOp, lastPage, lastFavOp>>
    /\ NoOtaActivity

\* the handler has returned: React applies the queued updates in one render,
\* and useQuery runs with the values of that render
CommitRender ==
    /\ running
    /\ prog = <<>>
    /\ searchFilter' =
           IF pending.filter = {} THEN searchFilter ELSE Val(pending.filter)
    /\ currentPage' =
           IF pending.page = {} THEN currentPage ELSE Val(pending.page)
    /\ useQuery(currentPage', searchFilter')
    /\ running' = FALSE
    /\ pending' = [filter |-> {}, page |-> {}]
    /\ UNCHANGED <<favVars, searchFilterVar, currentPageVar, prog,
                   lastOp, lastPage, lastFavOp>>
    /\ NoOtaActivity

\* a response is delivered between handlers, never inside one
DeliverData(info) == ~running /\ DataArrives(info)

\* a failure is delivered between handlers, never inside one
DeliverFailure(partial) == ~running /\ QueryFails(partial)

NextSteps ==
    \/ \E text \in Filters : BeginTextChange(text)
    \/ BeginNextPress
    \/ BeginPrevPress
    \/ ExecStatement
    \/ CommitRender
    \/ \E info \in PageInfos : DeliverData(info)
    \/ \E partial \in {{}} \cup {{i} : i \in PageInfos} : DeliverFailure(partial)

SpecSteps == Init /\ [][NextSteps]_vars

\* C11: the filter change and the page reset of setSearchFilter are one step
\* for observers: the query in force and the values a render reads never
\* pair the new filter text with the page that was current before the call
\* when that page was not 1, and between handlers neither do the reactive
\* variables.
C11_FilterAndResetAtomic ==
    (lastOp.op = "onChangeText" /\ lastOp.fromPage # 1) =>
        /\ queryVars # variables(lastOp.fromPage, lastOp.text)
        /\ ~(searchFilter = lastOp.text /\ currentPage = lastOp.fromPage)
        /\ ~running =>
               ~(searchFilterVar = lastOp.text
                 /\ currentPageVar = lastOp.fromPage)

\* C11 witness: inside setSearchFilter the new filter is stored while the
\* page variable still holds the old page 2.
C11_Witness ==
    /\ running
    /\ lastOp.op = "onChangeText"
    /\ lastOp.fromPage = 2
    /\ searchFilterVar = lastOp.text
    /\ currentPageVar = 2

\* C12: every query dispatched carries the page held in the reactive
\* variable at the moment of dispatch, and once a handler that called
\* setCurrentPage(p) has returned the query in force carries p.
C12_QueryCarriesStoredPage ==
    [][/\ queryVars' # queryVars => queryVars'.page = currentPageVar'
       /\ ~running' => queryVars'.page = currentPageVar']_vars

\* C12 witness: a Next press called setCurrentPage(2) and the query for
\* page 2 was dispatched.
C12_Witness ==
    /\ ~running
    /\ lastOp.op = "nextPress"
    /\ lastOp.fromPage = 1
    /\ currentPageVar = 2
    /\ queryVars.page = 2

\* --------------------------------------------- App.tsx: the OTA update check
Last(seq) == seq[Len(seq)]

\* the record of one Updates call
Call(call, result) == [call |-> call, result |-> result]

\* the result of the call in progress becomes known
Returned(result) ==
    [otaCalls EXCEPT ![Len(otaCalls)] = Call(Last(otaCalls).call, result)]

\* checkForUpdates without the development guard
skipInDev_Never(dev) == FALSE

\* if (__DEV__) { console.log(...skipped...); return; }
skipInDev(dev) == dev

\* the download started whatever the check returned
fetchWanted_Always(isAvailable) == TRUE

\* if (update.isAvailable) { await fetchUpdateAsync(); await reloadAsync(); }
fetchWanted(isAvailable) == isAvailable

\* a try / catch that wraps only the checkForUpdateAsync call
catchError_CheckOnly(call) ==
    [pc |-> "error", uncaught |-> (call # "checkForUpdate")]

\* a catch block that never finishes
catchError_Hangs(call) == [pc |-> "stuck", uncaught |-> FALSE]

\* catch (error) { console.log("OTA Updates: Error checking for updates", error); }
catchError(call) == [pc |-> "error", uncaught |-> FALSE]

\* the application state an OTA step leaves alone
appVars == <<favVars, searchVars, pageVars, queryVars, data, status,
             everLoaded, lastPage, lastFavOp, raceVars>>

\* useEffect(() => { checkForUpdates(); }, []): the check starts at launch
OtaLaunch ==
    /\ otaPc = "launch"
    /\ IF skipInDev(isDev)
       THEN otaPc' = "skipped" /\ otaCalls' = otaCalls /\ otaOutcome' = "skipped"
       ELSE /\ otaPc' = "checking"
            /\ otaCalls' = Append(otaCalls, Call("checkForUpdate", "pending"))
            /\ otaOutcome' = "none"
    /\ lastOp' = Op("otaLaunch", "", "", 0, TRUE)
    /\ hookResult' = NoHookResult
    /\ UNCHANGED <<appVars, stepVars, sideVars, isDev, otaUncaught>>

\* const update = await Updates.checkForUpdateAsync() returns
OtaCheckReturns(isAvailable) ==
    /\ otaPc = "checking"
    /\ IF fetchWanted(isAvailable)
       THEN /\ otaPc' = "fetching"
            /\ otaCalls' = Append(
                   Returned(IF isAvailable THEN "available" ELSE "notAvailable"),
                   Call("fetchUpdate", "pending"))
       ELSE /\ otaPc' = "noUpdate"
            /\ otaCalls' =
                   Returned(IF isAvailable THEN "available" ELSE "notAvailable")
    /\ otaOutcome' = IF otaPc' = "noUpdate" THEN "noUpdate" ELSE otaOutcome
    /\ lastOp' = Op("otaCheckReturns", "", "", 0, isAvailable)
    /\ hookResult' = NoHookResult
    /\ UNCHANGED <<appVars, stepVars, sideVars, isDev, otaUncaught>>

\* await Updates.fetchUpdateAsync() returns, reloadAsync is called
OtaFetchReturns ==
    /\ otaPc = "fetching"
    /\ otaPc' = "reloading"
    /\ otaCalls' = Append(Returned("ok"), Call("reloadApplication", "pending"))
    /\ otaOutcome' = otaOutcome
    /\ lastOp' = Op("otaFetchReturns", "", "", 0, TRUE)
    /\ hookResult' = NoHookResult
    /\ UNCHANGED <<appVars, stepVars, sideVars, isDev, otaUncaught>>

\* await Updates.reloadAsync() takes effect: the application restarts with
\* the downloaded code, its state is the state after construction
OtaReloads ==
    /\ otaPc = "reloading"
    /\ otaPc' = "launch"
    /\ otaCalls' = <<>>
    /\ otaOutcome' = "reloadRequested"
    /\ rendered' = {}
    /\ currentPageVarB' = 1
    /\ favoriteCharactersVar' = <<>>
    /\ searchFilterVar' = ""
    /\ currentPageVar' = 1
    /\ favorites' = <<>>
    /\ searchFilter' = ""
    /\ currentPage' = 1
    /\ queryVars' = variables(1, "")
    /\ data' = {}
    /\ status' = "loading"
    /\ everLoaded' = FALSE
    /\ inflight' = {variables(1, "")}
    /\ dataFor' = variables(1, "")
    /\ lastArrived' = {}
    /\ lastPage' = [by |-> "init", page |-> 1]
    /\ lastFavOp' = [id \in Ids |-> "none"]
    /\ lastOp' = Op("otaReloads", "", "", 0, TRUE)
    /\ hookResult' = NoHookResult
    /\ UNCHANGED <<stepVars, isDev, otaUncaught>>

\* the awaited Updates call rejects: control passes to the catch block
OtaCallFails ==
    /\ otaPc \in {"checking", "fetching", "reloading"}
    /\ otaPc' = catchError(Last(otaCalls).call).pc
    /\ otaUncaught' = catchError(Last(otaCalls).call).uncaught
    /\ otaCalls' = Returned("failed")
    /\ otaOutcome' = IF otaPc' = "error" THEN "error" ELSE otaOutcome
    /\ lastOp' = Op("otaCallFails", "", "", 0, TRUE)
    /\ hookResult' = NoHookResult
    /\ UNCHANGED <<appVars, stepVars, sideVars, isDev>>

\* the update check runs while the operations of the context are in use
NextOTA ==
    \/ OtaLaunch
    \/ \E isAvailable \in BOOLEAN : OtaCheckReturns(isAvailable)
    \/ OtaFetchReturns
    \/ OtaReloads
    \/ OtaCallFails
    \/ NextContext

SpecOTA == Init /\ [][NextOTA]_vars

\* C14: in development mode the OTA sequence is skipped entirely: none of
\* checkForUpdate, fetchUpdate and reloadApplication is ever invoked.
C14_SkippedInDevelopment ==
    isDev => (otaCalls = <<>> /\ otaPc \in {"launch", "skipped"})

\* C14 witness: a development build went through the launch effect and the
\* application was used afterwards.
C14_Witness ==
    /\ isDev
    /\ otaPc = "skipped"
    /\ lastOp.op = "setCurrentPage"

\* C15: fetchUpdate is invoked only after checkForUpdate returned
\* isAvailable = true, reloadApplication only after that fetchUpdate
\* completed without failure, and neither when isAvailable is false.
C15_OtaOrder ==
    \A i \in 1..Len(otaCalls) :
        /\ i = 1 => otaCalls[i].call = "checkForUpdate"
        /\ otaCalls[i].call = "fetchUpdate" =>
               (i = 2 /\ otaCalls[1] = Call("checkForUpdate", "available"))
        /\ otaCalls[i].call = "reloadApplication" =>
               (i = 3 /\ otaCalls[2] = Call("fetchUpdate", "ok"))
        /\ otaCalls[i].result = "notAvailable" => Len(otaCalls) = 1

\* C15 witness: the check found an update, the download completed and the
\* reload was requested.
C15_Witness ==
    /\ otaPc = "reloading"
    /\ Len(otaCalls) = 3
    /\ otaCalls[3] = Call("reloadApplication", "pending")

\* C16: a failure of checkForUpdate, fetchUpdate or reloadApplication is
\* caught and only logged: it never leaves checkForUpdates uncaught, no later
\* call of the sequence is made after the failing one, and the failing step
\* leaves the state of the running application as it was.
C16_FailureCaughtAndLogged ==
    [][/\ ~otaUncaught'
       /\ otaPc' = "error" =>
              /\ Last(otaCalls').result = "failed"
              /\ \A i \in 1..(Len(otaCalls') - 1) :
                     otaCalls'[i].result \in {"available", "ok"}
       /\ otaPc = "error" => (otaPc' = "error" /\ otaCalls' = otaCalls)
       /\ (otaPc # "error" /\ otaPc' = "error") =>
              (UNCHANGED appVars /\ Len(otaCalls') = Len(otaCalls))]_vars

\* C16 witness: the download failed, and afterwards a page was set through
\* the context.
C16_Witness ==
    /\ otaPc = "error"
    /\ Len(otaCalls) = 2
    /\ Last(otaCalls) = Call("fetchUpdate", "failed")
    /\ lastOp.op = "setCurrentPage"
    /\ currentPage = 2

\* ------------------------------------------ AppContext.tsx: useAppContext
\* the value AppProvider passes to AppContext.Provider (its data fields)
contextValue ==
    [favorites |-> favorites, searchFilter |-> searchFilter,
     currentPage |-> currentPage]

\* useContext(AppContext): the provider's value inside an AppProvider, the
\* default undefined of createContext outside one
useContext(inside) == IF inside THEN {contextValue} ELSE {}

\* useAppContext without the check of the context
useAppContext_NoCheck(context) ==
    [threw |-> FALSE, message |-> "", value |-> context]

\* export const useAppContext = () => { const context = useContext(AppContext);
\*   if (!context) throw new Error("..."); return context; }
useAppContext(context) ==
    IF context = {}
    THEN [threw |-> TRUE,
          message |-> "useAppContext must be used within AppProvider",
          value |-> {}]
    ELSE [threw |-> FALSE, message |-> "", value |-> context]

\* a component calls useAppContext() while it renders, inside or outside an
\* AppProvider
UseAppContext(inside) ==
    /\ hookResult' = useAppContext(useContext(inside))
    /\ lastOp' = Op("useAppContext", "", "", 0, inside)
    /\ UNCHANGED <<appVars, stepVars, otaVars, sideVars>>

\* the operations of the context and the components that read it
NextHook ==
    \/ \E inside \in BOOLEAN : UseAppContext(inside)
    \/ NextContext

SpecHook == Init /\ [][NextHook]_vars

\* C17: useAppContext outside an AppProvider fails at once with the error
\* "useAppContext must be used within AppProvider"; inside an AppProvider it
\* never fails and returns the current values.
C17_HookFailsFastOutsideProvider ==
    lastOp.op = "useAppContext" =>
        IF lastOp.enabled
        THEN /\ ~hookResult.threw
             /\ hookResult.value = {contextValue}
        ELSE /\ hookResult.threw
             /\ hookResult.message
                    = "useAppContext must be used within AppProvider"
             /\ hookResult.value = {}

\* C17 witness: after operations of the context, a component outside the
\* provider called the hook.
C17_Witness ==
    /\ lastOp.op = "useAppContext"
    /\ ~lastOp.enabled
    /\ hookResult.threw
    /\ currentPage = 2

\* ------------------------------------ requests in flight and late responses
\* The infos of a source with two pages: page 1 reports next = 2, page 2
\* reports prev = 1.  What matters below is which response is shown, not what
\* it contains.
RaceInfos == {[next |-> {2}, prev |-> Null], [next |-> Null, prev |-> {1}]}

\* useQuery hands a response to the component only when it answers the
\* variables of the current render; a response to superseded variables only
\* reaches the cache
delivered(v) == v = queryVars

\* useQuery at the render after a handler, with the requests it sends: new
\* variables either miss the cache, and a request is sent (one per set of
\* variables), or hit it, and the cached result for them is in force at once
reobserve(page, filter) ==
    /\ queryVars' = variables(page, filter)
    /\ IF queryVars' = queryVars
       THEN UNCHANGED <<data, status, inflight, dataFor>>
       ELSE \E hit \in {{}} \cup {{i} : i \in RaceInfos} :
                /\ data' = hit
                /\ status' = IF hit = {} THEN "loading" ELSE "ready"
                /\ inflight' =
                       IF hit = {} THEN inflight \cup {queryVars'} ELSE inflight
                /\ dataFor' = IF hit = {} THEN dataFor ELSE queryVars'
    /\ everLoaded' = (everLoaded \/ data' # {})

\* the component shows the response of the most recent arrival, whatever
\* variables it answers
shownFor_LastArrived == lastArrived

\* const characters = data?.characters?.results; const info = data?.characters?.info;
\* the variables answered by the results and the info on the screen
shownFor == IF data = {} THEN {} ELSE {dataFor}

\* onChangeText={setSearchFilter}
RaceTextChange(text) ==
    /\ text # searchFilter
    /\ setSearchFilter(text)
    /\ UNCHANGED <<favVars, lastFavOp, lastArrived, stepVars, otaVars, sideVars>>
    /\ reobserve(currentPage', searchFilter')
    /\ lastOp' = Op("onChangeText", "", text, 0, TRUE)
    /\ lastPage' = [by |-> "setSearchFilter", page |-> 1]
    /\ hookResult' = NoHookResult

\* the Next button
RaceNextPress ==
    /\ data # {}
    /\ IF hasNext(data, currentPage)
          /\ (hasNext(data, currentPage) /\ currentPage < maxPages)
       THEN /\ setCurrentPage(currentPage + 1)
            /\ lastPage' = [by |-> "setCurrentPage", page |-> currentPage + 1]
       ELSE UNCHANGED <<pageVars, lastPage>>
    /\ UNCHANGED <<favVars, searchVars, lastFavOp, lastArrived, stepVars, otaVars, sideVars>>
    /\ reobserve(currentPage', searchFilter')
    /\ lastOp' = Op("nextPress", "", "", 0, hasNext(data, currentPage))
    /\ hookResult' = NoHookResult

\* the Previous button
RacePrevPress ==
    /\ data # {}
    /\ IF hasPrev(data) /\ (hasPrev(data) /\ Truthy(Val(data).prev))
       THEN /\ setCurrentPage(Val(Val(data).prev))
            /\ lastPage' = [by |-> "setCurrentPage", page |-> Val(Val(data).prev)]
       ELSE UNCHANGED <<pageVars, lastPage>>
    /\ UNCHANGED <<favVars, searchVars, lastFavOp, lastArrived, stepVars, otaVars, sideVars>>
    /\ reobserve(currentPage', searchFilter')
    /\ lastOp' = Op("prevPress", "", "", 0, hasPrev(data))
    /\ hookResult' = NoHookResult

\* the response to one of the requests in flight arrives, in any order
ResponseArrives(v, info) ==
    /\ v \in inflight
    /\ inflight' = inflight \ {v}
    /\ lastArrived' = {v}
    /\ IF delivered(v)
       THEN /\ data' = {info}
            /\ status' = "ready"
            /\ dataFor' = v
            /\ everLoaded' = TRUE
       ELSE UNCHANGED <<data, status, dataFor, everLoaded>>
    /\ lastOp' = Op("responseArrives", "", "", 0, delivered(v))
    /\ hookResult' = NoHookResult
    /\ UNCHANGED <<favVars, searchVars, pageVars, queryVars, lastPage,
                   lastFavOp, stepVars, otaVars, sideVars>>

NextRace ==
    \/ \E text \in Filters : RaceTextChange(text)
    \/ RaceNextPress
    \/ RacePrevPress
    \/ \E v \in inflight : \E info \in RaceInfos : ResponseArrives(v, info)

SpecRace == Init /\ [][NextRace]_vars

C21_PageFrame ==
    [][ /\ lastOp'.op \in {"favoritePress", "dataArrives", "queryFails"}
            => UNCHANGED pageVars
        /\ lastOp'.op \in {"nextPress", "prevPress"}
            => UNCHANGED <<searchVars, favVars>>
        /\ lastOp'.op = "onChangeText" => UNCHANGED favVars
        /\ pageVars' # pageVars
            => lastOp'.op \in {"nextPress", "prevPress", "onChangeText"}
        /\ lastPage'.by = "init" => currentPage' = 1 /\ currentPageVar' = 1
      ]_vars

\* C21 witness: a favorite press has just been handled on page 2, with a
\* non-empty search text and a favorite in the list.
C21_Witness ==
    /\ lastOp.op = "favoritePress"
    /\ currentPage = 2
    /\ searchFilter = "rick"
    /\ favorites # <<>>

\* C25: while no PageInfo is available for the pair in force (no data yet, or
\* the query failed without data), no Next and no Previous press is handled,
\* and the current page changes only through a search-text change.
C25_NoPagingWithoutInfo ==
    [][ data = {}
        => /\ lastOp'.op \notin {"nextPress", "prevPress"}
           /\ pageVars' # pageVars => lastOp'.op = "onChangeText"
      ]_vars

\* C25 witness: the query for page 2 has failed without data.
C25_Witness ==
    /\ data = {}
    /\ status = "error"
    /\ currentPage = 2
    /\ lastOp.op = "queryFails"

\* the ids in a favorites list
Members(list) == {list[i] : i \in 1..Len(list)}

\* C26: a press on a character's favorite button flips the membership of
\* exactly that id, leaves the membership of every other id unchanged, and a
\* second press on the same button right after the first (the screen
\* re-rendered in between) restores the set of favorites from before the
\* first press.
C26_FavoritePressFlips ==
    [][ lastOp'.op = "favoritePress"
        => /\ includes(favorites', lastOp'.id) = ~includes(favorites, lastOp'.id)
           /\ \A other \in Ids \ {lastOp'.id} :
                  includes(favorites', other) = includes(favorites, other)
           /\ (lastOp.op = "favoritePress" /\ lastOp.id = lastOp'.id)
               => Members(favorites')
                    = IF lastOp.had
                      THEN Members(favorites) \cup {lastOp.id}
                      ELSE Members(favorites) \ {lastOp.id}
      ]_vars

\* C26 witness: a press has just made character 1 a favorite again, after
\* character 2: the list order differs from the order of the ids.
C26_Witness ==
    /\ lastOp.op = "favoritePress"
    /\ lastOp.id = "1"
    /\ ~lastOp.had
    /\ lastFavOp["1"] = "add"
    /\ favorites = <<"2", "1">>

\* C27: every query issued carries page = the current page and filter = the
\* current search text, passed on as it is, except that the empty text is
\* sent as no filter at all.
C27_QueryCarriesPageAndText ==
    /\ queryVars.page = currentPage
    /\ searchFilter = "" => queryVars.filter = {}
    /\ searchFilter # "" => queryVars.filter = {searchFilter}

\* C27 witness: the query in force asks for page 2 of the text "rick".
C27_Witness ==
    /\ queryVars = [page |-> 2, filter |-> {"rick"}]
    /\ searchFilter = "rick"

\* ------------------------------------------- App.tsx: the update check ends
\* an awaited Updates call settles: it returns or it rejects
OtaAwaitSettles ==
    \/ \E isAvailable \in BOOLEAN : OtaCheckReturns(isAvailable)
    \/ OtaFetchReturns
    \/ OtaReloads
    \/ OtaCallFails

\* the update check runs while favorites are added and removed
NextOTAFair ==
    \/ OtaLaunch
    \/ OtaAwaitSettles
    \/ \E id \in Ids : AddToFavorites(id)
    \/ \E id \in Ids : RemoveFromFavorites(id)

\* the effect runs after the first render, and every awaited call settles
SpecOTAFair ==
    /\ Init
    /\ [][NextOTAFair]_vars
    /\ WF_vars(OtaLaunch)
    /\ WF_vars(OtaAwaitSettles)

\* C28: provided each awaited OTA call eventually returns or fails, the
\* update check started at launch always terminates, in exactly one of four
\* outcomes: skipped (development mode), no update available, update fetched
\* and reload requested, or error logged; an outcome once reached is not
\* replaced by another within the same launch.
C28_CheckTerminates ==
    /\ [](/\ otaOutcome \in {"none", "skipped", "noUpdate", "reloadRequested", "error"}
          /\ otaOutcome = "skipped" <=> otaPc = "skipped"
          /\ otaOutcome = "noUpdate" <=> otaPc = "noUpdate"
          /\ otaOutcome = "error" <=> otaPc = "error"
          /\ otaOutcome = "reloadRequested" => (otaPc = "launch" /\ otaCalls = <<>>)
          /\ otaOutcome = "skipped" => isDev
          /\ otaOutcome \in {"noUpdate", "reloadRequested", "error"} => ~isDev
          /\ otaOutcome = "error" => ~otaUncaught
          /\ otaPc \in {"checking", "fetching", "reloading"} => otaOutcome = "none")
    /\ [][(otaOutcome \in {"skipped", "noUpdate", "error"})
           => (otaOutcome' = otaOutcome)]_vars
    /\ (otaOutcome = "none") ~> (otaOutcome # "none")

\* C28 witness: an update was fetched and the reload it requested has
\* restarted the application.
C28_Witness ==
    /\ otaOutcome = "reloadRequested"
    /\ otaPc = "launch"
    /\ ~isDev

\* ------------------------- unnamed/part_001: the provider without the mirror
\* const setCurrentPage = (page) => { currentPageVar(page); };
setCurrentPageB(page) == currentPageVarB' = page

\* currentPage of a provider that is not rendered again after the call: it
\* still exposes the page from before the call
currentPageB_NoRerender == lastOp.fromPage

\* const currentPage = useReactiveVar(currentPageVar): the provider re-renders
\* on every change of the store and exposes its value
currentPageB == currentPageVarB

\* any number a consumer may pass
PagesAsked == 0..MaxReported

\* the same setCurrentPage(page) call made through the context of each of
\* the two providers
SetCurrentPageInBoth(page) ==
    /\ setCurrentPage(page)
    /\ setCurrentPageB(page)
    /\ UNCHANGED <<favVars, searchVars, lastFavOp>>
    /\ useQuery(currentPage', searchFilter')
    /\ lastOp' = Op("setCurrentPage", "", "", page, TRUE)
    /\ lastPage' = [by |-> "setCurrentPage", page |-> page]
    /\ hookResult' = NoHookResult
    /\ UNCHANGED <<stepVars, otaVars, raceVars, rendered>>

NextVariants == \E page \in PagesAsked : SetCurrentPageInBoth(page)

SpecVariants == Init /\ [][NextVariants]_vars

\* C29: the provider that mirrors the current page into local state and the
\* provider that reads it from the reactive variable are observationally
\* equivalent: after each call of any sequence of setCurrentPage calls made
\* through the context both expose the same currentPage, the page of the
\* latest call.
C29_VariantsExposeSamePage ==
    /\ currentPage = currentPageB
    /\ lastOp.op = "setCurrentPage" => currentPage = lastOp.page

\* C29 witness: a second call has moved both providers from page 2 to a page
\* no source reports as reachable.
C29_Witness ==
    /\ lastOp.op = "setCurrentPage"
    /\ lastOp.fromPage = 2
    /\ lastOp.page = 0
    /\ currentPageB = 0

\* ------------------------------- the screen in front of a monotonic source
\* the Next handler trusting the source alone
nextAllowed_SourceOnly(info, page) == (info = {} \/ Val(info).next # Null)

\* if (hasNext && currentPage < maxPages)
nextAllowed(info, page) == hasNext(info, page) /\ page < maxPages

\* the Previous handler testing info.next in place of info.prev
prevAllowed_TestsNext(info) == hasPrev(info) /\ Truthy(Val(info).next)

\* if (hasPrev && info.prev)
prevAllowed(info) == hasPrev(info) /\ Truthy(Val(info).prev)

\* the info a source with `pages` pages reports for page `page`:
\* prev = page - 1, null at page 1; next = page + 1, null at the last page
monoInfo(page, pages) ==
    [next |-> IF page < pages THEN {page + 1} ELSE Null,
     prev |-> IF page > 1 THEN {page - 1} ELSE Null]

\* what such a source can answer for a page it has; the number of pages it
\* has for a search text is its own affair
MonoInfos(page) == {monoInfo(page, pages) : pages \in page..MaxSourcePages}

\* useQuery in front of the monotonic source: a cache hit is an answer the
\* source gave earlier
useQueryMono(page, filter) ==
    /\ queryVars' = variables(page, filter)
    /\ IF queryVars' = queryVars
       THEN data' = data /\ status' = status
       ELSE \E r \in {[d |-> {}, s |-> "loading"]}
                     \cup {[d |-> {i}, s |-> "ready"] : i \in MonoInfos(page)} :
                data' = r.d /\ status' = r.s
    /\ everLoaded' = (everLoaded \/ data' # {})

\* <TextInput value={searchFilter} onChangeText={setSearchFilter} />
MonoTextChange(text) ==
    /\ text # searchFilter
    /\ setSearchFilter(text)
    /\ UNCHANGED <<favVars, lastFavOp>>
    /\ useQueryMono(currentPage', searchFilter')
    /\ lastOp' = Op("onChangeText", "", text, 0, TRUE)
    /\ NoOtherActivity
    /\ lastPage' = [by |-> "setSearchFilter", page |-> 1]

\* the Next button: if (hasNext && currentPage < maxPages) setCurrentPage(currentPage + 1)
MonoNextPress ==
    /\ data # {}
    /\ IF nextAllowed(data, currentPage)
       THEN /\ setCurrentPage(currentPage + 1)
            /\ lastPage' = [by |-> "nextPress", page |-> currentPage + 1]
       ELSE UNCHANGED <<pageVars, lastPage>>
    /\ UNCHANGED <<favVars, searchVars, lastFavOp>>
    /\ useQueryMono(currentPage', searchFilter')
    /\ lastOp' = Op("nextPress", "", "", 0, hasNext(data, currentPage))
    /\ NoOtherActivity

\* the Previous button: if (hasPrev && info.prev) setCurrentPage(info.prev)
MonoPrevPress ==
    /\ data # {}
    /\ IF prevAllowed(data)
       THEN /\ setCurrentPage(Val(Val(data).prev))
            /\ lastPage' = [by |-> "prevPress", page |-> Val(Val(data).prev)]
       ELSE UNCHANGED <<pageVars, lastPage>>
    /\ UNCHANGED <<favVars, searchVars, lastFavOp>>
    /\ useQueryMono(currentPage', searchFilter')
    /\ lastOp' = Op("prevPress", "", "", 0, hasPrev(data))
    /\ NoOtherActivity

\* the source answers the query in force, or the request fails without data
NextMono ==
    \/ \E text \in Filters : MonoTextChange(text)
    \/ MonoNextPress
    \/ MonoPrevPress
    \/ \E info \in MonoInfos(queryVars.page) : DataArrives(info)
    \/ QueryFails({})

SpecMono == Init /\ [][NextMono]_vars

\* C23: with a monotonic source, a Next press that advances from page c
\* followed, once the new PageInfo has arrived, by a Previous press returns
\* the current page to c; from the start at page 1 a Next press gives page 2
\* with canGoNext false, and a search-text change then gives page 1.
C23_NextThenPrevReturns ==
    [][ /\ (lastOp'.op = "nextPress" /\ lastOp'.enabled)
            => /\ currentPage' = currentPage + 1
               /\ lastPage' = [by |-> "nextPress", page |-> currentPage + 1]
        /\ (lastOp'.op = "prevPress" /\ lastPage.by = "nextPress")
            => /\ currentPage' = lastPage.page - 1
               /\ currentPageVar' = lastPage.page - 1
        /\ (lastOp'.op = "nextPress" /\ lastOp'.enabled /\ currentPage = 1)
            => (currentPage' = 2 /\ ~canGoNext')
        /\ lastOp'.op = "onChangeText" => currentPage' = 1
      ]_vars

\* C23 witness: a Previous press has brought the screen back from page 2,
\* reached by a Next press, to page 1, under the search text "rick".
C23_Witness ==
    /\ lastOp.op = "prevPress"
    /\ lastOp.fromPage = 2
    /\ currentPage = 1
    /\ searchFilter = "rick"
    /\ lastPage = [by |-> "prevPress", page |-> 1]

\* C24: with a monotonic source whose page count may depend on the search
\* text, every query issued after any sequence of Next, Previous and
\* search-text changes requests a page p with 1 <= p <= maxPages.
C24_MonoQueryPageInRange ==
    /\ 1 <= queryVars.page
    /\ queryVars.page <= maxPages
    /\ queryVars.page = currentPage

\* C24 witness: the query in force asks for page maxPages of a text for which
\* the source has more pages than that.
C24_Witness ==
    /\ queryVars = [page |-> maxPages, filter |-> {"rick"}]
    /\ data # {}
    /\ Val(data).next = {maxPages + 1}
    /\ lastOp.op = "dataArrives"

\* ------------------------------- presses handled before the next render
\* what the handlers of the render on the screen see: currentPage and info
\* are constants of that render
Shown ==
    IF rendered = {}
    THEN [currentPage |-> currentPage, data |-> data]
    ELSE Val(rendered)

\* the page asked for computed from the store
nextTarget_FromStore(shownPage, storedPage) == storedPage + 1

\* setCurrentPage(currentPage + 1), currentPage being the value of the render
nextTarget(shownPage, storedPage) == shownPage + 1

\* a Next press handled by the render on the screen
StaleNextPress ==
    /\ Shown.data # {}
    /\ IF nextAllowed(Shown.data, Shown.currentPage)
       THEN /\ setCurrentPage(nextTarget(Shown.currentPage, currentPageVar))
            /\ lastPage' = [by |-> "nextPress",
                            page |-> nextTarget(Shown.currentPage, currentPageVar)]
       ELSE UNCHANGED <<pageVars, lastPage>>
    /\ rendered' = {Shown}
    /\ lastOp' = Op("nextPress", "", "", 0, hasNext(Shown.data, Shown.currentPage))
    /\ hookResult' = NoHookResult
    /\ UNCHANGED <<favVars, searchVars, lastFavOp, queryVars, data, status,
                   everLoaded, stepVars, otaVars, raceVars, currentPageVarB>>

\* a Previous press handled by the render on the screen
StalePrevPress ==
    /\ Shown.data # {}
    /\ IF prevAllowed(Shown.data)
       THEN /\ setCurrentPage(Val(Val(Shown.data).prev))
            /\ lastPage' = [by |-> "prevPress", page |-> Val(Val(Shown.data).prev)]
       ELSE UNCHANGED <<pageVars, lastPage>>
    /\ rendered' = {Shown}
    /\ lastOp' = Op("prevPress", "", "", 0, hasPrev(Shown.data))
    /\ hookResult' = NoHookResult
    /\ UNCHANGED <<favVars, searchVars, lastFavOp, queryVars, data, status,
                   everLoaded, stepVars, otaVars, raceVars, currentPageVarB>>

\* React renders the component again with the state the handlers left
Render ==
    /\ rendered # {}
    /\ rendered' = {}
    /\ UNCHANGED <<favVars, searchVars, pageVars, lastPage, lastFavOp>>
    /\ useQuery(currentPage', searchFilter')
    /\ lastOp' = Op("render", "", "", 0, TRUE)
    /\ hookResult' = NoHookResult
    /\ UNCHANGED <<stepVars, otaVars, raceVars, currentPageVarB>>

\* a response is taken in once the pending render is done
NextStale ==
    \/ StaleNextPress
    \/ StalePrevPress
    \/ Render
    \/ \E info \in PageInfos : rendered = {} /\ DataArrives(info)

SpecStale == Init /\ [][NextStale]_vars

\* C22: two Next presses (or two Previous presses) handled against the same
\* rendered state, before the new page is re-rendered, have the same effect
\* as one press: from a rendered page c a repeated Next yields c + 1, never
\* c + 2 and never a page above maxPages.
C22_RepeatedPressIsOnePress ==
    [][ /\ (lastOp'.op = "nextPress" /\ lastOp.op = "nextPress")
            => /\ UNCHANGED pageVars
               /\ lastOp.enabled => currentPage' = Val(rendered).currentPage + 1
        /\ (lastOp'.op = "prevPress" /\ lastOp.op = "prevPress")
            => UNCHANGED pageVars
        /\ (lastOp'.op = "nextPress" /\ pageVars' # pageVars)
            => /\ currentPage' = Shown.currentPage + 1
               /\ currentPage' <= maxPages
      ]_vars

\* C22 witness: a second Next press has been handled by the render of page 1
\* when the state already held page 2, and the state holds page 2.
C22_Witness ==
    /\ lastOp.op = "nextPress"
    /\ lastOp.enabled
    /\ lastOp.fromPage = 2
    /\ rendered # {}
    /\ Shown.currentPage = 1
    /\ currentPage = 2

====
